---- MODULE Spec2Model ----
(***************************************************************************)
(* Model of onedrive_sync.c: main() reads USERPROFILE, builds the path of  *)
(* a marker file in the OneDrive folder with snprintf into a 512-byte      *)
(* buffer, prints it, opens it with mode "w", writes one line, closes the  *)
(* stream and reports.  One action per statement of main(); the C library  *)
(* calls (getenv, snprintf, fopen, fprintf, fclose) are modelled by what   *)
(* they do to the process and to the file system.                          *)
(*                                                                         *)
(* A C string is a TLA+ string.  A pointer is <<>> (NULL) or <<v>>.        *)
(***************************************************************************)
EXTENDS Integers, Sequences, FiniteSets, TLC

----------------------------------------------------------------------------
(* Bounds of the model *)

\* number of times the program is run one after the other
MaxRuns == 2
\* a flush that fails leaves 0..MaxShort bytes of the buffer in the file
MaxShort == 1

----------------------------------------------------------------------------
(* Program constants and literals *)

\* char dest[512]
DestSize == 512

\* the format of line 17 after "%s"
Suffix == "\\OneDrive\\DatRainCacheTest.txt"

\* the literals of lines 13, 19, 23, 26, 28
EnvMsg == "USERPROFILE not found. Are you on Windows?\n"
CopyPrefix == "Copying file to: "
OpenMsg == "Failed to open file in OneDrive folder.\n"
Line == "This is a DatRain sync test.\n"
SuccessMsg == "File created in OneDrive folder. It should sync automatically.\n"

NULL == <<>>
Ptr(v) == <<v>>
Deref(p) == p[1]

----------------------------------------------------------------------------
(* Values of USERPROFILE that are tried *)

\* n times the character x
RECURSIVE Pad(_)
Pad(n) ==
    IF n <= 0 THEN ""
    ELSE LET h == Pad(n \div 2)
         IN  IF n % 2 = 0 THEN h \o h ELSE h \o h \o "x"

\* the longest USERPROFILE whose path still fits dest with its terminator
Fit == DestSize - 1 - Len(Suffix)

Drive == "C:\\"
EmptyProfile == ""
SpacedProfile == "C:\\My Users\\a b"
FitProfile == Drive \o Pad(Fit - Len(Drive))
LongProfile == Drive \o Pad(Fit + 1 - Len(Drive))
HugeProfile == Drive \o Pad(DestSize)

Profiles == {EmptyProfile, SpacedProfile, FitProfile, LongProfile, HugeProfile}
EnvValues == {NULL} \cup {Ptr(v) : v \in Profiles}

----------------------------------------------------------------------------
(* C library *)

\* snprintf(dest, size, "%s" Suffix, s): at most size-1 characters are stored
Snprintf(size, s) ==
    LET full == s \o Suffix
    IN  IF Len(full) <= size - 1 THEN full ELSE SubSeq(full, 1, size - 1)

\* index of the last backslash of p, 0 if there is none
LastSep(p) ==
    LET seps == {i \in 1..Len(p) : SubSeq(p, i, i) = "\\"}
    IN  IF seps = {} THEN 0 ELSE CHOOSE i \in seps : \A j \in seps : j <= i

\* the directory in which fopen looks up or creates the last component of p
DirName(p) ==
    LET i == LastSep(p)
    IN  IF i <= 1 THEN SubSeq(p, 1, i) ELSE SubSeq(p, 1, i - 1)

\* the path the program means to write, and the directory that holds it
Intended(v) == v \o Suffix
OneDriveDir(v) == DirName(Intended(v))

\* the files the runs can touch, and the directories they can be opened in
AllPaths == {Intended(v) : v \in Profiles} \cup {Snprintf(DestSize, v) : v \in Profiles}
CandidateDirs == {DirName(Snprintf(DestSize, v)) : v \in Profiles}

\* what the file of interest may hold before the first run
OldContents == {NULL, Ptr(Line), Ptr("stale data\n")}

----------------------------------------------------------------------------
(* State *)

VARIABLES
    env,            \* USERPROFILE in the environment of the process: NULL or Ptr(value)
    pc,             \* the statement of main() that runs next; "idle" and "done" outside a run
    onedrive_path,  \* const char *onedrive_path
    dest,           \* char dest[512], as the C string it holds
    f,              \* FILE *f: NULL or Ptr([path, buf])
    stdout,         \* what the run has written to standard output, one string per printf
    stderr,         \* what the run has written to standard error
    status,         \* the exit status of the run: NULL until main returns
    streams,        \* the paths the process holds an open stream on
    dirs,           \* the directories that exist and in which files may be created and written
    fs,             \* the content of each file: NULL when the file does not exist
    fs0,            \* the file system as it was when the run started
    events,         \* the library calls of the run, in the order they were made
    runs,           \* the number of runs started
    prev            \* the outcome of the run before this one, <<>> in the first run

vars == <<env, pc, onedrive_path, dest, f, stdout, stderr, status, streams,
          dirs, fs, fs0, events, runs, prev>>

Event(op, arg, ok) == [op |-> op, arg |-> arg, ok |-> ok]

\* the outcome of a finished run, as the next run finds it
Outcome ==
    [env |-> env, status |-> status, events |-> events, fs |-> fs]

Init ==
    /\ env = NULL
    /\ pc = "idle"
    /\ onedrive_path = NULL
    /\ dest = ""
    /\ f = NULL
    /\ stdout = <<>>
    /\ stderr = <<>>
    /\ status = NULL
    /\ streams = {}
    /\ dirs \in SUBSET CandidateDirs
    /\ \E old \in OldContents :
          fs = [p \in AllPaths |-> IF DirName(p) \in dirs THEN old ELSE NULL]
    /\ fs0 = fs
    /\ events = <<>>
    /\ runs = 0
    /\ prev = <<>>

----------------------------------------------------------------------------
(* Running the program *)

\* the shell starts the program with USERPROFILE unset or set to v
Exec(v) ==
    /\ pc \in {"idle", "done"}
    /\ runs < MaxRuns
    /\ env' = v
    /\ runs' = runs + 1
    /\ prev' = IF pc = "done" THEN <<Outcome>> ELSE <<>>
    /\ pc' = "getenv"
    /\ onedrive_path' = NULL
    /\ dest' = ""
    /\ f' = NULL
    /\ stdout' = <<>>
    /\ stderr' = <<>>
    /\ status' = NULL
    /\ streams' = {}
    /\ events' = <<>>
    /\ fs0' = fs
    /\ UNCHANGED <<dirs, fs>>

\* line 9: const char *onedrive_path = getenv("USERPROFILE");
Getenv ==
    /\ pc = "getenv"
    /\ onedrive_path' = env
    /\ pc' = "check_env"
    /\ UNCHANGED <<env, dest, f, stdout, stderr, status, streams, dirs, fs,
                   events, fs0, runs, prev>>

\* CheckEnv with the diagnostic sent to standard output (printf for fprintf(stderr))
CheckEnvToStdout ==
    /\ pc = "check_env"
    /\ IF onedrive_path = NULL
       THEN /\ stdout' = Append(stdout, EnvMsg)
            /\ status' = Ptr(1)
            /\ events' = Append(events, Event("return", "", FALSE))
            /\ pc' = "done"
       ELSE /\ pc' = "snprintf"
            /\ UNCHANGED <<stdout, status, events>>
    /\ UNCHANGED <<env, onedrive_path, dest, f, stderr, streams, dirs, fs,
                   fs0, runs, prev>>

\* CheckEnv with the test if (!onedrive_path || !*onedrive_path)
CheckEnvOrEmpty ==
    /\ pc = "check_env"
    /\ IF onedrive_path = NULL \/ onedrive_path = Ptr("")
       THEN /\ stderr' = Append(stderr, EnvMsg)
            /\ status' = Ptr(1)
            /\ events' = Append(events, Event("return", "", FALSE))
            /\ pc' = "done"
       ELSE /\ pc' = "snprintf"
            /\ UNCHANGED <<stderr, status, events>>
    /\ UNCHANGED <<env, onedrive_path, dest, f, stdout, streams, dirs, fs,
                   fs0, runs, prev>>

\* lines 12-15: if (!onedrive_path) { fprintf(stderr, ...); return 1; }
CheckEnv ==
    /\ pc = "check_env"
    /\ IF onedrive_path = NULL
       THEN /\ stderr' = Append(stderr, EnvMsg)
            /\ status' = Ptr(1)
            /\ events' = Append(events, Event("return", "", FALSE))
            /\ pc' = "done"
       ELSE /\ pc' = "snprintf"
            /\ UNCHANGED <<stderr, status, events>>
    /\ UNCHANGED <<env, onedrive_path, dest, f, stdout, streams, dirs, fs,
                   fs0, runs, prev>>

\* line 17: snprintf(dest, sizeof(dest), "%s\\OneDrive\\DatRainCacheTest.txt", onedrive_path);
BuildDest ==
    /\ pc = "snprintf"
    /\ dest' = Snprintf(DestSize, Deref(onedrive_path))
    /\ pc' = "printf_dest"
    /\ UNCHANGED <<env, onedrive_path, f, stdout, stderr, status, streams,
                   dirs, fs, events, fs0, runs, prev>>

\* PrintfDest printing the two parts of the path instead of the buffer:
\* printf("Copying file to: %s\\OneDrive\\DatRainCacheTest.txt\n", onedrive_path)
PrintfDestParts ==
    /\ pc = "printf_dest"
    /\ stdout' = Append(stdout, CopyPrefix \o Deref(onedrive_path) \o Suffix \o "\n")
    /\ events' = Append(events, Event("printf_dest", dest, TRUE))
    /\ pc' = "fopen"
    /\ UNCHANGED <<env, onedrive_path, dest, f, stderr, status, streams,
                   dirs, fs, fs0, runs, prev>>

\* line 19: printf("Copying file to: %s\n", dest);
PrintfDest ==
    /\ pc = "printf_dest"
    /\ stdout' = Append(stdout, CopyPrefix \o dest \o "\n")
    /\ events' = Append(events, Event("printf_dest", dest, TRUE))
    /\ pc' = "fopen"
    /\ UNCHANGED <<env, onedrive_path, dest, f, stderr, status, streams,
                   dirs, fs, fs0, runs, prev>>

\* fopen(path, "a"): as mode "w", but an existing file keeps its content
FopenA(path) ==
    IF DirName(path) \in dirs
    THEN /\ f' = Ptr([path |-> path, buf |-> ""])
         /\ fs' = [fs EXCEPT ![path] = IF @ = NULL THEN Ptr("") ELSE @]
         /\ streams' = streams \cup {path}
         /\ events' = Append(events, Event("fopen", path, TRUE))
    ELSE /\ f' = NULL
         /\ events' = Append(events, Event("fopen", path, FALSE))
         /\ UNCHANGED <<fs, streams>>

\* fopen(path, "w"): fails when the directory of path is missing or not
\* writable; otherwise creates the file or truncates it to length 0
FopenW(path) ==
    IF DirName(path) \in dirs
    THEN /\ f' = Ptr([path |-> path, buf |-> ""])
         /\ fs' = [fs EXCEPT ![path] = Ptr("")]
         /\ streams' = streams \cup {path}
         /\ events' = Append(events, Event("fopen", path, TRUE))
    ELSE /\ f' = NULL
         /\ events' = Append(events, Event("fopen", path, FALSE))
         /\ UNCHANGED <<fs, streams>>

\* line 21: FILE *f = fopen(dest, "w");
Fopen ==
    /\ pc = "fopen"
    /\ FopenW(dest)
    /\ pc' = "check_open"
    /\ UNCHANGED <<env, onedrive_path, dest, stdout, stderr, status, dirs,
                   fs0, runs, prev>>

\* CheckOpen with return 0 on the failure path
CheckOpenReturn0 ==
    /\ pc = "check_open"
    /\ IF f = NULL
       THEN /\ stderr' = Append(stderr, OpenMsg)
            /\ status' = Ptr(0)
            /\ events' = Append(events, Event("return", "", TRUE))
            /\ pc' = "done"
       ELSE /\ pc' = "fprintf"
            /\ UNCHANGED <<stderr, status, events>>
    /\ UNCHANGED <<env, onedrive_path, dest, f, stdout, streams, dirs, fs,
                   fs0, runs, prev>>

\* lines 22-25: if (!f) { fprintf(stderr, ...); return 1; }
CheckOpen ==
    /\ pc = "check_open"
    /\ IF f = NULL
       THEN /\ stderr' = Append(stderr, OpenMsg)
            /\ status' = Ptr(1)
            /\ events' = Append(events, Event("return", "", FALSE))
            /\ pc' = "done"
       ELSE /\ pc' = "fprintf"
            /\ UNCHANGED <<stderr, status, events>>
    /\ UNCHANGED <<env, onedrive_path, dest, f, stdout, streams, dirs, fs,
                   fs0, runs, prev>>

\* line 26: fprintf(f, "This is a DatRain sync test.\n");  the line goes to
\* the buffer of the stream; the value fprintf returns is not looked at
Fprintf ==
    /\ pc = "fprintf"
    /\ f' = Ptr([Deref(f) EXCEPT !.buf = @ \o Line])
    /\ events' = Append(events, Event("fprintf", Deref(f).path, TRUE))
    /\ pc' = "fclose"
    /\ UNCHANGED <<env, onedrive_path, dest, stdout, stderr, status, streams,
                   dirs, fs, fs0, runs, prev>>

\* fclose(stream): the buffer is flushed to the file, which succeeds or (disk
\* full, device error) fails after n bytes; either way the stream is closed
Flush(stream, ok, n) ==
    LET data == IF ok THEN stream.buf ELSE SubSeq(stream.buf, 1, n)
    IN  [fs EXCEPT ![stream.path] = Ptr(Deref(@) \o data)]

\* Fclose with fflush(f) in place of fclose(f): the stream stays open
FcloseLeak ==
    /\ pc = "fclose"
    /\ \E ok \in BOOLEAN, n \in 0..MaxShort :
          /\ ok => n = 0
          /\ n < Len(Deref(f).buf)
          /\ fs' = Flush(Deref(f), ok, n)
          /\ events' = Append(events, Event("fflush", Deref(f).path, ok))
    /\ pc' = "printf_done"
    /\ UNCHANGED <<env, onedrive_path, dest, f, stdout, stderr, status, streams,
                   dirs, fs0, runs, prev>>

\* Fclose with lines 27 and 28 swapped: the success message is printed, then
\* the stream is closed
FcloseAfterReport ==
    /\ pc = "fclose"
    /\ stdout' = Append(stdout, SuccessMsg)
    /\ \E ok \in BOOLEAN, n \in 0..MaxShort :
          /\ ok => n = 0
          /\ n < Len(Deref(f).buf)
          /\ fs' = Flush(Deref(f), ok, n)
          /\ events' = events \o <<Event("printf_done", "", TRUE),
                                   Event("fclose", Deref(f).path, ok)>>
    /\ streams' = streams \ {Deref(f).path}
    /\ pc' = "return"
    /\ UNCHANGED <<env, onedrive_path, dest, f, stderr, status, dirs,
                   fs0, runs, prev>>

\* line 27: fclose(f);  the value fclose returns is not looked at
Fclose ==
    /\ pc = "fclose"
    /\ \E ok \in BOOLEAN, n \in 0..MaxShort :
          /\ ok => n = 0
          /\ n < Len(Deref(f).buf)
          /\ fs' = Flush(Deref(f), ok, n)
          /\ events' = Append(events, Event("fclose", Deref(f).path, ok))
    /\ streams' = streams \ {Deref(f).path}
    /\ pc' = "printf_done"
    /\ UNCHANGED <<env, onedrive_path, dest, f, stdout, stderr, status, dirs,
                   fs0, runs, prev>>

\* line 28: printf("File created in OneDrive folder. ...\n");
PrintfDone ==
    /\ pc = "printf_done"
    /\ stdout' = Append(stdout, SuccessMsg)
    /\ events' = Append(events, Event("printf_done", "", TRUE))
    /\ pc' = "return"
    /\ UNCHANGED <<env, onedrive_path, dest, f, stderr, status, streams,
                   dirs, fs, fs0, runs, prev>>

\* line 29: return 0;
Return ==
    /\ pc = "return"
    /\ status' = Ptr(0)
    /\ events' = Append(events, Event("return", "", TRUE))
    /\ pc' = "done"
    /\ UNCHANGED <<env, onedrive_path, dest, f, stdout, stderr, streams,
                   dirs, fs, fs0, runs, prev>>

Next ==
    \/ \E v \in EnvValues : Exec(v)
    \/ Getenv
    \/ CheckEnv
    \/ BuildDest
    \/ PrintfDest
    \/ Fopen
    \/ CheckOpen
    \/ Fprintf
    \/ Fclose
    \/ PrintfDone
    \/ Return

Spec == Init /\ [][Next]_vars

----------------------------------------------------------------------------
(* Vocabulary of the properties *)

Terminated == pc = "done"
ProfileSet == env # NULL
Profile == Deref(env)

Calls(ev, op) == {i \in 1..Len(ev) : ev[i].op = op}
Called(op) == Calls(events, op) # {}
OpenAttempted == Called("fopen")
OpenSucceeded == \E i \in Calls(events, "fopen") : events[i].ok
OpenFailed == \E i \in Calls(events, "fopen") : ~events[i].ok
FlushSucceeded(ev) == \E i \in Calls(ev, "fclose") : ev[i].ok
FlushFailed == \E i \in Calls(events, "fclose") : ~events[i].ok
Printed(out, msg) == \E i \in 1..Len(out) : out[i] = msg

----------------------------------------------------------------------------
(* Properties *)

\* C1: a run with USERPROFILE set to a directory whose OneDrive subdirectory
\* exists and is writable ends with status 0 and with the file
\* <USERPROFILE>\OneDrive\DatRainCacheTest.txt holding exactly the line,
\* whatever the file held before.
C1_MarkerWritten ==
    (Terminated /\ ProfileSet /\ OneDriveDir(Profile) \in dirs)
        => /\ status = Ptr(0)
           /\ fs[Intended(Profile)] = Ptr(Line)

\* C2: with USERPROFILE unset the run attempts no open and no write, leaves
\* the file system as it found it, writes the diagnostic to standard error
\* and nothing to standard output, and ends with status 1.
C2_UnsetFails ==
    (Terminated /\ ~ProfileSet)
        => /\ events = <<Event("return", "", FALSE)>>
           /\ fs = fs0
           /\ stderr = <<EnvMsg>>
           /\ stdout = <<>>
           /\ status = Ptr(1)

C2_Witness ==
    Terminated /\ ~ProfileSet /\ status = Ptr(1) /\ runs = MaxRuns

C4_WriteFailureReported ==
    Terminated
        => /\ FlushFailed => (status = Ptr(1) /\ stderr # <<>>)
           /\ status = Ptr(0) => fs[dest] = Ptr(Line)

\* C5: for a USERPROFILE of any length the path passed to open is the value
\* followed by "\OneDrive\DatRainCacheTest.txt", never a prefix of it cut at
\* the 512-byte buffer, and no other path is opened or written.
C5_PathIsConcatenation ==
    /\ \A i \in 1..Len(events) :
          events[i].op \in {"fopen", "fprintf", "fclose"}
              => events[i].arg = Intended(Profile)
    /\ \A p \in AllPaths : fs[p] # fs0[p] => p = Intended(Profile)

\* C6: when USERPROFILE is set and the open fails, the run ends with status
\* 1, writes the could-not-open diagnostic to standard error, does not print
\* the success message, and leaves the file system as it found it.
C6_OpenFailureReported ==
    (Terminated /\ ProfileSet /\ OpenFailed)
        => /\ status = Ptr(1)
           /\ stderr = <<OpenMsg>>
           /\ ~Printed(stdout, SuccessMsg)
           /\ fs = fs0

C6_Witness ==
    /\ Terminated /\ ProfileSet /\ OpenFailed
    /\ DirName(dest) \notin dirs
    /\ status = Ptr(1)

\* C7: two runs in succession with the same USERPROFILE that both open and
\* write the file leave it byte-identical (the second run truncates and
\* rewrites), and both end with status 0.
C7_SecondRunIdentical ==
    (/\ Terminated /\ ProfileSet
     /\ prev # <<>>
     /\ prev[1].env = env
     /\ FlushSucceeded(prev[1].events)
     /\ FlushSucceeded(events))
        => /\ fs[dest] = prev[1].fs[dest]
           /\ status = Ptr(0)
           /\ prev[1].status = Ptr(0)

C7_Witness ==
    /\ Terminated /\ ProfileSet
    /\ prev # <<>>
    /\ prev[1].env = env
    /\ FlushSucceeded(prev[1].events)
    /\ FlushSucceeded(events)
    /\ fs[dest] = Ptr(Line)

\* C8: whenever the run reaches the open, the path printed in the "Copying
\* file to:" line is character for character the path passed to open and
\* written to, also for values with spaces and values too long for the buffer.
C8_PrintedPathIsOpenedPath ==
    \A i \in 1..Len(events) :
        events[i].op \in {"fopen", "fprintf", "fclose"}
            => /\ Len(stdout) >= 1
               /\ stdout[1] = CopyPrefix \o events[i].arg \o "\n"

C8_Witness ==
    /\ Terminated /\ env = Ptr(SpacedProfile)
    /\ OpenSucceeded
    /\ stdout[1] = CopyPrefix \o "C:\\My Users\\a b\\OneDrive\\DatRainCacheTest.txt" \o "\n"
    /\ fs["C:\\My Users\\a b\\OneDrive\\DatRainCacheTest.txt"] = Ptr(Line)

\* the calls op of the run all come after a call that satisfies P
After(op, P(_)) ==
    \A i \in Calls(events, op) : \E j \in 1..(i - 1) : P(events[j])

IsPrintfDest(e) == e.op = "printf_dest"
IsOpenOk(e) == e.op = "fopen" /\ e.ok
IsFprintf(e) == e.op = "fprintf"
IsFclose(e) == e.op = "fclose"

\* C9: in a run with USERPROFILE set the path is printed before the open is
\* attempted, the line is written only after a successful open, the close
\* comes after the write, and the success message is printed only after the
\* close and immediately before the return with status 0.
C9_Order ==
    ProfileSet
        => /\ After("fopen", IsPrintfDest)
           /\ After("fprintf", IsOpenOk)
           /\ After("fclose", IsFprintf)
           /\ After("printf_done", IsFclose)
           /\ \A i \in Calls(events, "printf_done") :
                 i < Len(events) => events[i + 1] = Event("return", "", TRUE)
           /\ \A i \in Calls(events, "return") :
                 events[i].ok => (i > 1 /\ events[i - 1].op = "printf_done")
           /\ status = Ptr(0) => events[Len(events)] = Event("return", "", TRUE)

C9_Witness ==
    /\ Terminated /\ ProfileSet /\ status = Ptr(0)
    /\ Len(events) = 6
    /\ events[1].op = "printf_dest"
    /\ events[2].op = "fopen"
    /\ events[3].op = "fprintf"
    /\ events[4].op = "fclose"
    /\ events[5].op = "printf_done"
    /\ events[6].op = "return"

\* C10: on every exit path no stream of the program is open at termination:
\* a stream that was opened has been closed exactly once, and on the
\* early-return paths none was ever acquired.
C10_NoStreamLeft ==
    Terminated
        => /\ streams = {}
           /\ OpenSucceeded => Cardinality(Calls(events, "fclose")) = 1
           /\ ~OpenSucceeded => (f = NULL /\ ~Called("fclose"))
           /\ status = Ptr(1) => ~OpenSucceeded

C10_Witness ==
    /\ Terminated /\ OpenSucceeded
    /\ streams = {}
    /\ Cardinality(Calls(events, "fclose")) = 1

====
